---- MODULE Spec2Model ----
(***************************************************************************)
(* A model of qfetch (src/qfetch/qfetch.py): a single-threaded run of      *)
(* main(), the probes it calls, the uptime parser and formatter, the art   *)
(* selector and the renderer.                                              *)
(*                                                                         *)
(* Text is modelled in two ways.  Text that the program only concatenates  *)
(* or measures is a TLA+ string (Len and \o apply to it).  Text the        *)
(* program scans (the value of $SHELL, the kernel release, the output of   *)
(* uptime) is a sequence of one-character strings.                         *)
(*                                                                         *)
(* A Python call that may raise is modelled by a record                    *)
(* [exc |-> <exception name, or None>, val |-> <returned value>].          *)
(***************************************************************************)
EXTENDS Integers, Sequences, FiniteSets, TLC

VARIABLES
    host,              \* the machine: platform.system(), .release() (characters),
                       \* .platform(terse=True) and .machine()
    env_SHELL,         \* $SHELL, a sequence of characters
    args,              \* the parsed command line: [art, sys_info, theme]
    rand_art,          \* the module-level random.choice(art)
    pc,                \* the position of the run
    err,               \* the uncaught exception that ended the run, or None
    out,               \* the lines printed so far
    art_calls,         \* the block returned by each call of ascii_art()
    art_lines,         \* main's local art_lines
    width,             \* main's local width
    calls,             \* the probes invoked so far, in order
    building,          \* which list of sysinfo() is being built (1 or 2)
    sys_info_default,        \* sysinfo's first list, as far as built
    sys_info_no_nerd_font,   \* sysinfo's second list, as far as built
    stats,             \* the list sysinfo() returned
    i,                 \* main's loop index
    probe,             \* the probe called on its own (SpecProbes), or None
    probe_in,          \* what that probe was given
    probe_out          \* what that probe returned or raised

vars == <<host, env_SHELL, args, rand_art, pc, err,
          out, art_calls, art_lines, width, calls, building, sys_info_default,
          sys_info_no_nerd_font, stats, i, probe, probe_in, probe_out>>

(***************************************************************************)
(* Python values and helpers                                               *)
(***************************************************************************)

\* Python's None (an absent command-line option, a function that falls off its end).
None == "<None>"

\* A call that returned v.
Return(v) == [exc |-> None, val |-> v]

\* A call that raised exception e.
Raise(e) == [exc |-> e, val |-> None]

\* str(v) of an f-string field: None renders as the text "None".
str(v) == IF v = None THEN "None" ELSE v

Max(a, b) == IF a > b THEN a ELSE b

\* needle in haystack, both sequences of characters.
Contains(haystack, needle) ==
    \E k \in 0..(Len(haystack) - Len(needle)) :
        \A j \in 1..Len(needle) : haystack[k + j] = needle[j]

\* str.lower(), character by character, on the letters the model's texts use.
LowerChar(ch) ==
    CASE ch = "M" -> "m" [] ch = "W" -> "w" [] ch = "S" -> "s" [] ch = "L" -> "l"
      [] ch = "I" -> "i" [] ch = "C" -> "c" [] ch = "R" -> "r" [] ch = "O" -> "o"
      [] ch = "F" -> "f" [] ch = "T" -> "t" [] OTHER -> ch

lower(s) == [k \in 1..Len(s) |-> LowerChar(s[k])]

(***************************************************************************)
(* The art catalog.  A block is its text cut at every "\n": the last piece *)
(* is what follows the final newline.  The grave accent of the art, which  *)
(* a TLA+ string cannot hold, is written ^ (the art has no ^ of its own).  *)
(***************************************************************************)

art ==
    << << "    |\\ |\\    ",
          "    \\ \\| |",
          "     \\ | |",
          "   .--''/",
          "  /o     \\",
          "  \\      /",
          "   {>o<}='",
          "" >>,
       << "    .---.",
          "   /     \\",
          "   \\.@-@./",
          "   /^\\_/^\\",
          "  //  _  \\\\",
          " | \\     )|_",
          "/^\\_^>  <_/ \\",
          "\\__/'---'\\__/",
          "" >>,
       << " .\\\\            //.",
          ". \\ \\          / /.",
          ".\\  ,\\     /^ /,.- ",
          " -.   \\  /'/ /  .",
          " ^ -   ^-'  \\  -",
          "   '.       /.\\^",
          "      -    .-",
          "      :^//.'",
          "      .^.'",
          "      .'",
          "" >>,
       << "       __",
          "   _  |@@|",
          "  / \\ \\--/ __",
          "  ) O|----|  |   __",
          " / / \\ }{ /\\ )_ / _\\",
          " )/  /\\__/\\ \\__O (__ ",
          "|/  (--/\\--)    \\__/",
          " /   _)(  )(_",
          "   ^---''---^",
          "" >>,
       << "",
          "   |\\---/|",
          "   | ,_, |",
          "    \\_^_/-..----.",
          " ___/ ^   ' ,\"\"+ \\",
          "(__...'   __\\    |^.___.';",
          "  (_,...'(_,.^__)/'.....+",
          "" >> >>

\* str.splitlines(): the pieces, without the empty piece after a final newline.
splitlines(block) ==
    IF Len(block) > 0 /\ block[Len(block)] = ""
    THEN SubSeq(block, 1, Len(block) - 1)
    ELSE block

(***************************************************************************)
(* OS check                                                                *)
(***************************************************************************)

os_check(system) ==
    IF system = "Darwin" THEN Return("macOS")
    ELSE IF system = "Windows" THEN Return("Windows")
    ELSE IF system = "Linux" THEN Return("Linux")
    ELSE Raise("Exception")

(***************************************************************************)
(* Art-related code                                                        *)
(***************************************************************************)

colors ==
    [default |-> "95", red |-> "91", green |-> "92", yellow |-> "93",
     blue |-> "94", magenta |-> "95", cyan |-> "96"]

theme_color_code(a) ==
    colors[IF a.theme = None THEN "default" ELSE a.theme]

\* What dict.get gives for a key the dict lacks (None), as a block: no text at all.
NoBlock == << >>

\* art_dict.get(key), with rnd the value of rand_art.
art_dict_get(key, rnd) ==
    CASE key = "Playboy-Bunny" -> art[1]
      [] key = "Tux" -> art[2]
      [] key = "Phoenix" -> art[3]
      [] key = "Robot" -> art[4]
      [] key = "Cat" -> art[5]
      [] key = "Random-Art" -> rnd
      [] OTHER -> NoBlock

ascii_art_typo(a, rnd) ==
    IF a.art # None THEN art_dict_get(IF a.art = "Random-Art" THEN "Random" ELSE a.art, rnd)
    ELSE art[3]

ascii_art(a, rnd) ==
    IF a.art # None THEN art_dict_get(a.art, rnd) ELSE art[3]

RECURSIVE longest_from(_, _, _)
\* The loop of longest_line from line k on, with l_line the longest so far.
longest_from(lines, k, l_line) ==
    IF k > Len(lines) THEN l_line
    ELSE longest_from(lines, k + 1, IF Len(lines[k]) > l_line THEN Len(lines[k]) ELSE l_line)

longest_line_first(block) ==
    Len(splitlines(block)[1])

longest_line(block) ==
    longest_from(splitlines(block), 1, Len(splitlines(block)[1]))

(***************************************************************************)
(* Number <-> text                                                         *)
(***************************************************************************)

Digit == <<"0", "1", "2", "3", "4", "5", "6", "7", "8", "9">>

\* The value of one digit character.
DigitValue(ch) == (CHOOSE d \in 1..10 : Digit[d] = ch) - 1

RECURSIVE int_from(_, _, _)
\* int(text) of a run of digits, read left to right from position k with acc so far.
int_from(text, k, acc) ==
    IF k > Len(text) THEN acc
    ELSE int_from(text, k + 1, acc * 10 + DigitValue(text[k]))

\* int(g or 0): an unset or empty group counts 0.
int_or_0(g) == IF Len(g) = 0 THEN 0 ELSE int_from(g, 1, 0)

RECURSIVE format_int(_)
\* f"{val}" of a non-negative integer, as a string.
format_int(n) ==
    IF n < 10 THEN Digit[n + 1]
    ELSE format_int(n \div 10) \o Digit[(n % 10) + 1]

(***************************************************************************)
(* System information elements.  Each probe takes the value of             *)
(* platform.system() and the outcome of each command it would run.         *)
(***************************************************************************)

package_count_na(system, listdir, dpkg) ==
    LET os1 == os_check(system) IN
    IF os1.exc # None THEN os1
    ELSE IF os1.val = "macOS" THEN
        IF listdir.exc # None THEN listdir
        ELSE Return(format_int(listdir.val) \o " (brew)")
    ELSE IF os_check(system).val = "Linux" THEN
        IF dpkg.exc # None THEN dpkg
        ELSE Return(dpkg.val \o " (apt)")
    ELSE Return("N/A")

package_count(system, listdir, dpkg) ==
    LET os1 == os_check(system) IN
    IF os1.exc # None THEN os1
    ELSE IF os1.val = "macOS" THEN
        IF listdir.exc # None THEN listdir
        ELSE Return(format_int(listdir.val) \o " (brew)")
    ELSE IF os_check(system).val = "Linux" THEN
        IF dpkg.exc # None THEN dpkg
        ELSE Return(dpkg.val \o " (apt)")
    ELSE Raise("UnboundLocalError")

\* tokens[k] of text.split(), counting from 0; IndexError past the end.
split_index(tokens, k) ==
    IF k + 1 <= Len(tokens) THEN Return(tokens[k + 1]) ELSE Raise("IndexError")

shell_ver(system, release, shell, zsh_version, bash_version) ==
    LET os1 == os_check(system) IN
    IF os1.exc # None THEN os1
    ELSE IF os1.val \in {"macOS", "Linux"} THEN
        LET is_wsl == Contains(lower(release), <<"m", "i", "c", "r", "o", "s", "o", "f", "t">>) IN
        IF Contains(shell, <<"z", "s", "h">>) THEN
            IF zsh_version.exc # None THEN zsh_version
            ELSE split_index(zsh_version.val, 1)
        ELSE IF Contains(shell, <<"b", "a", "s", "h">>) THEN
            IF is_wsl THEN Return("bash (WSL)")
            ELSE IF bash_version.exc # None THEN bash_version
            ELSE LET tok == split_index(bash_version.val, 3) IN
                 IF tok.exc # None THEN tok ELSE Return("bash " \o tok.val)
        ELSE Return(None)
    ELSE Raise("Exception")

find_term(system, echo_term) ==
    LET os1 == os_check(system) IN
    IF os1.exc # None THEN os1
    ELSE IF os1.val \in {"macOS", "Linux"} THEN echo_term
    ELSE Raise("Exception")

\* re.search(label + r":\s+(\d+)", vm_stat_output).group(1) as an int: the count
\* under the label, AttributeError when the output has no such line.
vm_stat_pages(vm_stat, label) ==
    IF label \in DOMAIN vm_stat THEN Return(vm_stat[label]) ELSE Raise("AttributeError")

memory_current(system, sysctl, vm_stat, free) ==
    LET os1 == os_check(system) IN
    IF os1.exc # None THEN os1
    ELSE IF os1.val = "macOS" THEN
        IF sysctl.exc # None THEN sysctl
        ELSE IF vm_stat.exc # None THEN vm_stat
        ELSE
            LET mem_total == sysctl.val.memsize \div (1024 * 1024)
                page_size == sysctl.val.pagesize
                pages_active == vm_stat_pages(vm_stat.val, "Pages active")
                pages_wired == vm_stat_pages(vm_stat.val, "Pages wired down")
                pages_speculative == vm_stat_pages(vm_stat.val, "Pages speculative")
            IN  IF pages_active.exc # None THEN pages_active
                ELSE IF pages_wired.exc # None THEN pages_wired
                ELSE IF pages_speculative.exc # None THEN pages_speculative
                ELSE LET mem_used ==
                             ((pages_active.val + pages_wired.val + pages_speculative.val)
                                 * page_size) \div (1024 * 1024)
                     IN Return(format_int(mem_used) \o "MiB / " \o format_int(mem_total) \o "MiB")
    ELSE IF os_check(system).val = "Linux" THEN free
    ELSE Raise("Exception")

\* df -h / | awk 'NR==2 {print $3 " / " $2}': df's output is its rows, each row its fields.
disk_usage_raising(system, df) ==
    LET os1 == os_check(system) IN
    IF os1.exc # None THEN os1
    ELSE IF os1.val \in {"Linux", "macOS"} THEN
        IF df.exc # None THEN df
        ELSE Return(df.val[2][3] \o " / " \o df.val[2][2])
    ELSE Raise("Exception")

disk_usage(system, df) ==
    LET os1 == os_check(system) IN
    IF os1.exc # None THEN os1
    ELSE IF os1.val \in {"Linux", "macOS"} THEN
        IF df.exc # None THEN df
        ELSE Return(df.val[2][3] \o " / " \o df.val[2][2])
    ELSE Return("N/A")

(***************************************************************************)
(* uptime: the regular expression of line 252,                             *)
(*   \d{1,2}:\d{2}\s+up\s+ (?:(\d+)\s+day(?:s)?,\s+)? (?:(\d+):(\d+))?     *)
(*   (?:(\d+)\s+min(?:ute)?s?)?                                            *)
(* matched as re.search matches it: at the leftmost start, and there in    *)
(* the order the backtracking matcher tries (a greedy run first; each      *)
(* optional group taken whenever it matches).  A position is the index of  *)
(* the next character to read; 0 stands for no match.                      *)
(***************************************************************************)

\* \s
Space == {" ", "\t", "\n", "\r"}

\* \d
DigitChars == {Digit[d] : d \in 1..10}

RECURSIVE run_end(_, _, _)
\* The position after the longest run of characters of class from p.
run_end(s, p, class) ==
    IF p <= Len(s) /\ s[p] \in class THEN run_end(s, p + 1, class) ELSE p

\* Whether the literal lit stands at p.
lit_at(s, p, lit) ==
    /\ p + Len(lit) - 1 <= Len(s)
    /\ \A j \in 1..Len(lit) : s[p + j - 1] = lit[j]

\* \d{n}:\d{2}\s+up\s+ at p, with exactly n digits before the colon.
match_clock(s, p, n) ==
    LET a == p + n IN
    IF /\ a + 2 <= Len(s)
       /\ \A k \in p..(a - 1) : s[k] \in DigitChars
       /\ s[a] = ":"
       /\ s[a + 1] \in DigitChars
       /\ s[a + 2] \in DigitChars
    THEN LET b == a + 3
             c == run_end(s, b, Space)
         IN IF c > b /\ lit_at(s, c, <<"u", "p">>)
            THEN LET e == run_end(s, c + 2, Space) IN IF e > c + 2 THEN e ELSE 0
            ELSE 0
    ELSE 0

\* \d{1,2}:\d{2}\s+up\s+ at p: two digits are tried before one.
match_prefix(s, p) ==
    LET two == match_clock(s, p, 2) IN
    IF two > 0 THEN two ELSE match_clock(s, p, 1)

\* (?:(\d+)\s+day(?:s)?,\s+) at p: [end, g1], end = 0 when it does not match.
match_days(s, p) ==
    LET d == run_end(s, p, DigitChars)
        w == run_end(s, d, Space)
        q == w + 3
        r == IF lit_at(s, q, <<"s", ",">>) THEN q + 2
             ELSE IF lit_at(s, q, <<",">>) THEN q + 1
             ELSE 0
        e == run_end(s, r, Space)
    IN IF d > p /\ w > d /\ lit_at(s, w, <<"d", "a", "y">>) /\ r > 0 /\ e > r
       THEN [end |-> e, g1 |-> SubSeq(s, p, d - 1)]
       ELSE [end |-> 0, g1 |-> << >>]

\* (?:(\d+):(\d+)) at p: [end, g2, g3].
match_hm(s, p) ==
    LET h == run_end(s, p, DigitChars)
        m == run_end(s, h + 1, DigitChars)
    IN IF h > p /\ lit_at(s, h, <<":">>) /\ m > h + 1
       THEN [end |-> m, g2 |-> SubSeq(s, p, h - 1), g3 |-> SubSeq(s, h + 1, m - 1)]
       ELSE [end |-> 0, g2 |-> << >>, g3 |-> << >>]

\* (?:(\d+)\s+min(?:ute)?s?) at p: [end, g4].
match_min(s, p) ==
    LET d == run_end(s, p, DigitChars)
        w == run_end(s, d, Space)
        q == w + 3
        u == IF lit_at(s, q, <<"u", "t", "e">>) THEN q + 3 ELSE q
        e == IF lit_at(s, u, <<"s">>) THEN u + 1 ELSE u
    IN IF d > p /\ w > d /\ lit_at(s, w, <<"m", "i", "n">>)
       THEN [end |-> e, g4 |-> SubSeq(s, p, d - 1)]
       ELSE [end |-> 0, g4 |-> << >>]

\* The whole expression at start p, which the prefix is known to match there.
\* A group that did not take part is the empty text.
match_at(s, p) ==
    LET p1 == match_prefix(s, p)
        dy == match_days(s, p1)
        p2 == IF dy.end > 0 THEN dy.end ELSE p1
        hm == match_hm(s, p2)
        p3 == IF hm.end > 0 THEN hm.end ELSE p2
        mn == match_min(s, p3)
    IN [matched |-> TRUE, g1 |-> dy.g1, g2 |-> hm.g2, g3 |-> hm.g3, g4 |-> mn.g4]

RECURSIVE search_from(_, _)
\* The leftmost start from p on where the expression matches, 0 when there is none.
search_from(s, p) ==
    IF p > Len(s) THEN 0
    ELSE IF match_prefix(s, p) > 0 THEN p
    ELSE search_from(s, p + 1)

\* re.search: the match at the leftmost start where there is one.
re_search(s) ==
    LET start == search_from(s, 1) IN
    IF start = 0 THEN [matched |-> FALSE, g1 |-> << >>, g2 |-> << >>, g3 |-> << >>, g4 |-> << >>]
    ELSE match_at(s, start)

uptime_fields_hm_only(match) ==
    [days |-> int_or_0(match.g1),
     hours |-> IF Len(match.g2) > 0 THEN int_or_0(match.g2) ELSE 0,
     minutes |-> IF Len(match.g3) > 0 THEN int_or_0(match.g3) ELSE 0]

\* Lines 259-261: days, hours, minutes of a match.
uptime_fields(match) ==
    [days |-> int_or_0(match.g1),
     hours |-> IF Len(match.g2) > 0 THEN int_or_0(match.g2) ELSE 0,
     minutes |-> IF Len(match.g3) > 0 THEN int_or_0(match.g3) ELSE int_or_0(match.g4)]

p_always_s(val, unit) ==
    format_int(val) \o " " \o unit \o "s"

\* uptime's local function p.
p(val, unit) ==
    format_int(val) \o " " \o unit \o (IF val = 1 THEN "" ELSE "s")

uptime(system, uptime_command) ==
    LET os1 == os_check(system) IN
    IF os1.exc # None THEN os1
    ELSE IF os1.val \in {"macOS", "Linux"} THEN
        IF uptime_command.exc # None THEN uptime_command
        ELSE LET match == re_search(uptime_command.val) IN
             IF ~match.matched THEN Raise("Exception")
             ELSE LET f == uptime_fields(match) IN
                  Return(p(f.days, "Day") \o ", " \o p(f.hours, "Hour") \o ", "
                             \o p(f.minutes, "Minute"))
    ELSE Raise("Exception")

(***************************************************************************)
(* Colours, palette, info lists                                            *)
(***************************************************************************)

\* The escape character "\033".
ESC == "\\033"

RECURSIVE palette_blocks(_, _)
\* The inner loop of print_color_palette from column j on, for row r.
palette_blocks(r, j) ==
    IF j >= 8 THEN ""
    ELSE LET color == IF r = 1 THEN 30 + j + 60 ELSE 30 + j
             block == ESC \o "[" \o format_int(color) \o "m" \o "<U+2588>" \o ESC \o "[0m"
         IN block \o block \o block \o palette_blocks(r, j + 1)

print_color_palette_empty == << >>

print_color_palette == << palette_blocks(0, 0), palette_blocks(1, 0) >>

theme_bar(a) == ESC \o "[" \o theme_color_code(a) \o "m" \o "<U+2590>" \o ESC \o "[0m"

colored_symbol(symbol, a) == ESC \o "[" \o theme_color_code(a) \o "m" \o symbol \o ESC \o "[0m"

\* One element of sys_info_default: the coloured symbol, the bar, the value.
default_row(symbol, a, value) ==
    colored_symbol(symbol, a) \o "  " \o theme_bar(a) \o "  " \o str(value)

\* One element of sys_info_no_nerd_font: the label, the value.
no_nerd_font_row(label, value) == label \o ": " \o str(value)

\* The symbol and the label of each fact.
symbols ==
    [arch |-> "<U+EC19>", package_count |-> "<U+EB29>", shell_ver |-> "<U+E614>",
     find_term |-> "<U+F489>", memory_current |-> "<U+EFC5>", disk_usage |-> "<U+F0A0>",
     uptime |-> "<U+E641>"]

labels ==
    [arch |-> "Arch", package_count |-> "Packages", shell_ver |-> "Shell",
     find_term |-> "Term", memory_current |-> "Memory", disk_usage |-> "Disk",
     uptime |-> "Uptime"]

\* The list sysinfo() returns.
sysinfo_select(a, lst_default, lst_no_nerd_font) ==
    IF a.sys_info = "sys_info_default" THEN lst_default
    ELSE IF a.sys_info = "sys_info_no_nerd_font" THEN lst_no_nerd_font
    ELSE lst_default

(***************************************************************************)
(* The renderer: one pass of main's loop                                   *)
(***************************************************************************)

RECURSIVE spaces(_)
\* ' ' * n (the empty text when n <= 0).
spaces(n) == IF n <= 0 THEN "" ELSE " " \o spaces(n - 1)

\* art_lines[k] if k < len(art_lines) else "", with k counted from 0.
art_line_at(lines, k) == IF k < Len(lines) THEN lines[k + 1] ELSE ""

final_line(a, line, w, stat) ==
    ESC \o "[" \o theme_color_code(a) \o "m" \o line \o ESC \o "[0m"
        \o spaces(w - Len(line)) \o str(stat)

Notice == "[!] Oops! qfetch doesn't support Windows yet."

unwind_flushing(printed, pending) == printed \o [k \in 1..Len(pending) |-> [kind |-> "row", line |-> "", text |-> pending[k]]]

\* What standard output holds once an exception has left sysinfo() and main(),
\* which catch nothing: what was printed before, and none of the pending elements.
unwind(printed, pending) == printed

(***************************************************************************)
(* The environment: the machines, shells, command lines and command        *)
(* outcomes the runs are checked over.                                     *)
(***************************************************************************)

Hosts ==
    { [system |-> "Darwin", release |-> <<"2", "3", ".", "1", ".", "0">>,
       platform |-> "macOS-14.1", machine |-> "arm64"],
      [system |-> "Linux", release |-> <<"6", ".", "8", ".", "0", "-", "4", "5", "-", "g", "e", "n", "e", "r", "i", "c">>,
       platform |-> "Linux-6.8.0-45-generic", machine |-> "x86_64"],
      [system |-> "Linux", release |-> <<"5", ".", "1", "5", ".", "1", "5", "3", ".", "1", "-", "M", "i", "c", "r", "o", "s", "o", "f", "t", "-", "s", "t", "a", "n", "d", "a", "r", "d", "-", "W", "S", "L", "2">>,
       platform |-> "Linux-5.15.153.1-microsoft-standard-WSL2", machine |-> "x86_64"],
      [system |-> "Windows", release |-> <<"1", "0">>,
       platform |-> "Windows-10", machine |-> "AMD64"],
      [system |-> "Plan9", release |-> <<"4">>,
       platform |-> "Plan9-4", machine |-> "386"] }

Shells ==
    { <<"/", "b", "i", "n", "/", "z", "s", "h">>,
      <<"/", "u", "s", "r", "/", "b", "i", "n", "/", "b", "a", "s", "h">>,
      <<"/", "u", "s", "r", "/", "b", "i", "n", "/", "f", "i", "s", "h">> }

\* The machines a whole run is checked on, each host with a login shell found on it:
\* zsh on macOS, bash and fish on Linux, bash under WSL, on Windows and on Plan9.
Machines ==
    { m \in Hosts \X Shells :
        \/ m[1].system \in {"Windows", "Plan9"} /\ Contains(m[2], <<"b", "a", "s", "h">>)
        \/ m[1].system = "Darwin" /\ Contains(m[2], <<"z", "s", "h">>)
        \/ m[1].system = "Linux" /\ Contains(m[2], <<"b", "a", "s", "h">>)
        \/ m[1].system = "Linux" /\ Contains(m[2], <<"f", "i", "s", "h">>)
                /\ ~Contains(lower(m[1].release), <<"w", "s", "l">>) }

ArtChoices == {None, "Playboy-Bunny", "Tux", "Phoenix", "Robot", "Cat", "Random-Art"}

SysInfoChoices == {None, "sys_info_default", "sys_info_no_nerd_font"}

ThemeChoices == {None, "default", "red", "green", "blue", "yellow", "cyan", "magenta"}

\* len(os.listdir("/opt/homebrew/cellar")), or the directory is missing.
ListdirOutcomes == {Return(142), Raise("FileNotFoundError")}

\* The command outcomes: the output (stripped), or the command failed.
DpkgOutcomes == {Return("1523"), Raise("CalledProcessError")}

\* The outputs of the version commands, cut at white space as str.split() cuts them.
ZshOutcomes ==
    {Return(<<"zsh", "5.9", "(x86_64-apple-darwin23.0)">>), Raise("CalledProcessError")}

BashOutcomes ==
    {Return(<<"GNU", "bash,", "version", "5.2.15(1)-release", "(x86_64-pc-linux-gnu)">>),
     Raise("CalledProcessError")}

TermOutcomes == {Return("xterm-256color"), Raise("CalledProcessError")}

SysctlOutcomes == {Return([memsize |-> 1073741824, pagesize |-> 4096])}

\* vm_stat's output as the page count under each label it prints.
VmStatOutcomes ==
    {Return(("Pages active" :> 51200) @@ ("Pages wired down" :> 25600)
                @@ ("Pages speculative" :> 1024)),
     Return(("Pages active" :> 51200) @@ ("Pages wired down" :> 25600))}

FreeOutcomes == {Return("3012MiB / 15894MiB")}

\* df -h /: the header row and the row of the root mount.
DfOutcomes ==
    {Return(<< <<"Filesystem", "Size", "Used", "Avail", "Use%", "Mounted">>,
               <<"/dev/sda1", "234G", "101G", "121G", "46%", "/">> >>),
     Raise("CalledProcessError")}

\* " 10:15  up 1 day,  3:45, 2 users" and an output the expression does not match.
UptimeOutcomes ==
    {Return(<<" ", "1", "0", ":", "1", "5", " ", " ", "u", "p", " ", "1", " ", "d", "a", "y", ",", " ", " ", "3", ":", "4", "5", ",", " ", "2", " ", "u", "s", "e", "r", "s">>),
     Return(<<"u", "p", " ", "3", " ", "m", "i", "n">>)}

(***************************************************************************)
(* A run of the program                                                    *)
(***************************************************************************)

envv == <<host, env_SHELL, args, rand_art>>
probev == <<probe, probe_in, probe_out>>
lists == <<sys_info_default, sys_info_no_nerd_font>>

\* The list sysinfo() is building.
pending == IF building = 1 THEN sys_info_default ELSE sys_info_no_nerd_font

\* The state once module level has run: arguments parsed, rand_art drawn.
Init ==
    /\ \E m \in Machines : host = m[1] /\ env_SHELL = m[2]
    /\ args \in [art : ArtChoices, sys_info : SysInfoChoices, theme : ThemeChoices]
    /\ rand_art \in {art[n] : n \in 1..Len(art)}
    /\ pc = "main"
    /\ err = None
    /\ out = << >>
    /\ art_calls = << >>
    /\ art_lines = << >>
    /\ width = 0
    /\ calls = << >>
    /\ building = 1
    /\ sys_info_default = << >>
    /\ sys_info_no_nerd_font = << >>
    /\ stats = << >>
    /\ i = 0
    /\ probe = None
    /\ probe_in = None
    /\ probe_out = Return(None)

\* An exception leaves sysinfo() and main(): the run ends.
abort(e) ==
    /\ err' = e
    /\ pc' = "aborted"
    /\ out' = unwind(out, pending)
    /\ sys_info_default' = << >>
    /\ sys_info_no_nerd_font' = << >>

\* The element for fact name is appended to the list being built.
append_fact(name, value) ==
    IF building = 1
    THEN /\ sys_info_default' = Append(sys_info_default, default_row(symbols[name], args, value))
         /\ UNCHANGED sys_info_no_nerd_font
    ELSE /\ sys_info_no_nerd_font' = Append(sys_info_no_nerd_font, no_nerd_font_row(labels[name], value))
         /\ UNCHANGED sys_info_default

\* One f-string element of sysinfo() that calls probe name, with result r.
sysinfo_element(name, r, next) ==
    /\ pc = name
    /\ calls' = Append(calls, name)
    /\ IF r.exc # None
       THEN abort(r.exc)
       ELSE /\ append_fact(name, r.val)
            /\ pc' = next
            /\ UNCHANGED <<err, out>>
    /\ UNCHANGED <<envv, probev, art_calls, art_lines, width, building, stats, i>>

\* main, lines 350-351.
main_os_check ==
    /\ pc = "main"
    /\ LET r == os_check(host.system) IN
       IF r.exc # None
       THEN abort(r.exc)
       ELSE /\ out' = IF r.val = "Windows"
                      THEN Append(out, [kind |-> "notice", line |-> "", text |-> Notice])
                      ELSE out
            /\ pc' = "art_lines"
            /\ UNCHANGED <<err, lists>>
    /\ UNCHANGED <<envv, probev, art_calls, art_lines, width, calls, building, stats, i>>

\* main, line 353.
main_art_lines ==
    /\ pc = "art_lines"
    /\ LET block == ascii_art(args, rand_art) IN
       /\ art_calls' = Append(art_calls, block)
       /\ art_lines' = splitlines(block)
    /\ pc' = "width"
    /\ UNCHANGED <<envv, probev, err, out, width, calls, building, lists, stats, i>>

\* main, line 355: longest_line() calls ascii_art() again.
main_width ==
    /\ pc = "width"
    /\ LET block == ascii_art(args, rand_art) IN
       /\ art_calls' = Append(art_calls, block)
       /\ width' = Max(longest_line(block) + 3, 15)
    /\ pc' = "sysinfo"
    /\ UNCHANGED <<envv, probev, err, out, art_lines, calls, building, lists, stats, i>>

\* sysinfo, lines 314 and 327: the OS element of the list being built.
sysinfo_os ==
    /\ pc = "sysinfo"
    /\ IF building = 1
       THEN LET r == os_check(host.system) IN
            IF r.exc # None
            THEN abort(r.exc)
            ELSE /\ sys_info_default' =
                        Append(sys_info_default,
                               default_row(IF r.val = "macOS" THEN "<U+F8FF>" ELSE "<U+F31A>",
                                           args, host.platform))
                 /\ pc' = "arch"
                 /\ UNCHANGED <<err, out, sys_info_no_nerd_font>>
       ELSE /\ sys_info_no_nerd_font' =
                   Append(sys_info_no_nerd_font, no_nerd_font_row("OS", host.platform))
            /\ pc' = "arch"
            /\ UNCHANGED <<err, out, sys_info_default>>
    /\ UNCHANGED <<envv, probev, art_calls, art_lines, width, calls, building, stats, i>>

\* sysinfo, lines 315 and 328.
sysinfo_arch ==
    /\ pc = "arch"
    /\ append_fact("arch", host.machine)
    /\ pc' = "package_count"
    /\ UNCHANGED <<envv, probev, err, out, art_calls, art_lines, width, calls, building, stats, i>>

\* sysinfo, lines 316 and 329.
sysinfo_package_count ==
    \E listdir \in ListdirOutcomes, dpkg \in DpkgOutcomes :
        sysinfo_element("package_count", package_count(host.system, listdir, dpkg), "shell_ver")

\* sysinfo, lines 317 and 330.
sysinfo_shell_ver ==
    \E zsh_version \in ZshOutcomes, bash_version \in BashOutcomes :
        sysinfo_element("shell_ver",
                        shell_ver(host.system, host.release, env_SHELL, zsh_version, bash_version),
                        "find_term")

\* sysinfo, lines 318 and 331.
sysinfo_find_term ==
    \E echo_term \in TermOutcomes :
        sysinfo_element("find_term", find_term(host.system, echo_term), "memory_current")

\* sysinfo, lines 319 and 332.
sysinfo_memory_current ==
    \E sysctl \in SysctlOutcomes, vm_stat \in VmStatOutcomes, free \in FreeOutcomes :
        sysinfo_element("memory_current", memory_current(host.system, sysctl, vm_stat, free),
                        "disk_usage")

\* sysinfo, lines 320 and 333.
sysinfo_disk_usage ==
    \E df \in DfOutcomes :
        sysinfo_element("disk_usage", disk_usage(host.system, df), "uptime")

\* sysinfo, lines 321 and 334.
sysinfo_uptime ==
    \E uptime_command \in UptimeOutcomes :
        sysinfo_element("uptime", uptime(host.system, uptime_command), "palette")

\* sysinfo, lines 322-323 and 335-336: the empty element and the palette end a list.
sysinfo_palette ==
    /\ pc = "palette"
    /\ IF building = 1
       THEN /\ sys_info_default' = sys_info_default \o <<"">> \o print_color_palette
            /\ building' = 2
            /\ pc' = "sysinfo"
            /\ UNCHANGED sys_info_no_nerd_font
       ELSE /\ sys_info_no_nerd_font' = sys_info_no_nerd_font \o <<"">> \o print_color_palette
            /\ pc' = "return"
            /\ UNCHANGED <<building, sys_info_default>>
    /\ UNCHANGED <<envv, probev, err, out, art_calls, art_lines, width, calls, stats, i>>

\* sysinfo, lines 339-344, and the start of main's loop (line 357).
sysinfo_return ==
    /\ pc = "return"
    /\ stats' = sysinfo_select(args, sys_info_default, sys_info_no_nerd_font)
    /\ sys_info_default' = << >>
    /\ sys_info_no_nerd_font' = << >>
    /\ i' = 0
    /\ pc' = "loop"
    /\ UNCHANGED <<envv, probev, err, out, art_calls, art_lines, width, calls, building>>

\* main, lines 357-362: one pass of the loop.
main_print ==
    /\ pc = "loop"
    /\ i < Len(stats)
    /\ LET line == art_line_at(art_lines, i) IN
       out' = Append(out, [kind |-> "row", line |-> line,
                           text |-> final_line(args, line, width, stats[i + 1])])
    /\ i' = i + 1
    /\ UNCHANGED <<envv, probev, err, pc, art_calls, art_lines, width, calls, building, lists, stats>>

\* main returns when the list is exhausted.
main_return ==
    /\ pc = "loop"
    /\ i >= Len(stats)
    /\ pc' = "done"
    /\ UNCHANGED <<envv, probev, err, out, art_calls, art_lines, width, calls, building, lists,
                   stats, i>>

Next ==
    \/ main_os_check
    \/ main_art_lines
    \/ main_width
    \/ sysinfo_os
    \/ sysinfo_arch
    \/ sysinfo_package_count
    \/ sysinfo_shell_ver
    \/ sysinfo_find_term
    \/ sysinfo_memory_current
    \/ sysinfo_disk_usage
    \/ sysinfo_uptime
    \/ sysinfo_palette
    \/ sysinfo_return
    \/ main_print
    \/ main_return

Spec == Init /\ [][Next]_vars

(***************************************************************************)
(* The probes called on their own, on every host and shell, and the uptime *)
(* parser on the uptime texts of the form                                  *)
(*   <H:MM> up [D day(s), ][H:MM | M min(s)]                               *)
(***************************************************************************)

MaxDays == 2
MaxHours == 3
MaxMinutes == 11

RECURSIVE decimal(_)
\* The decimal digits of n, as characters.
decimal(n) ==
    IF n < 10 THEN <<Digit[n + 1]>>
    ELSE decimal(n \div 10) \o <<Digit[(n % 10) + 1]>>

\* n in two digits, as uptime prints minutes after the hours.
two_digits(n) == <<Digit[(n \div 10) + 1], Digit[(n % 10) + 1]>>

\* The wall-clock part; the empty one gives a text the expression cannot match.
Clocks == { <<"1", "0", ":", "1", "5">>, <<"9", ":", "0", "5">>, << >> }

\* days = -1: no day part.  rest: what follows ("hm", "min" or "none").
UptimeForms ==
    { f \in [clock : Clocks, days : -1..MaxDays, plural : BOOLEAN,
             rest : {"hm", "min", "none"}, hours : 0..MaxHours,
             minutes : 0..MaxMinutes \cup {45, 59}] :
        /\ f.rest # "hm" => f.hours = 0
        /\ f.rest = "none" => f.minutes = 0
        /\ (f.days = -1 /\ f.rest # "min") => f.plural }

uptime_text(f) ==
    f.clock \o <<" ", "u", "p", " ">>
        \o (IF f.days >= 0
            THEN decimal(f.days) \o <<" ", "d", "a", "y">>
                     \o (IF f.plural THEN <<"s">> ELSE << >>) \o <<",", " ">>
            ELSE << >>)
        \o (CASE f.rest = "hm" -> decimal(f.hours) \o <<":">> \o two_digits(f.minutes)
              [] f.rest = "min" -> decimal(f.minutes) \o <<" ", "m", "i", "n">>
                                       \o (IF f.plural THEN <<"s">> ELSE << >>)
              [] OTHER -> << >>)

ProbesInit ==
    /\ host \in Hosts
    /\ env_SHELL \in Shells
    /\ args = [art |-> None, sys_info |-> None, theme |-> None]
    /\ rand_art = art[1]
    /\ pc = "probes"
    /\ err = None
    /\ out = << >>
    /\ art_calls = << >>
    /\ art_lines = << >>
    /\ width = 0
    /\ calls = << >>
    /\ building = 1
    /\ sys_info_default = << >>
    /\ sys_info_no_nerd_font = << >>
    /\ stats = << >>
    /\ i = 0
    /\ probe = None
    /\ probe_in = None
    /\ probe_out = Return(None)

mainv == <<envv, err, out, art_calls, art_lines, width, calls, building, lists, stats, i>>

call_disk_usage ==
    \E df \in DfOutcomes :
        /\ pc = "probes"
        /\ pc' = "called"
        /\ probe' = "disk_usage"
        /\ probe_in' = df
        /\ probe_out' = disk_usage(host.system, df)
        /\ UNCHANGED mainv

call_shell_ver ==
    \E zsh_version \in ZshOutcomes, bash_version \in BashOutcomes :
        /\ pc = "probes"
        /\ pc' = "called"
        /\ probe' = "shell_ver"
        /\ probe_in' = <<zsh_version, bash_version>>
        /\ probe_out' = shell_ver(host.system, host.release, env_SHELL, zsh_version, bash_version)
        /\ UNCHANGED mainv

call_uptime ==
    \E f \in UptimeForms :
        /\ pc = "probes"
        /\ pc' = "called"
        /\ probe' = "uptime"
        /\ probe_in' = f
        /\ probe_out' = uptime(host.system, Return(uptime_text(f)))
        /\ UNCHANGED mainv

ProbesNext ==
    \/ call_disk_usage
    \/ call_shell_ver
    \/ call_uptime

SpecProbes == ProbesInit /\ [][ProbesNext]_vars

(***************************************************************************)
(* Properties                                                              *)
(***************************************************************************)

\* The composed art/info rows among the printed lines, and the notices.
Rows(o) == SelectSeq(o, LAMBDA e : e.kind = "row")
Notices(o) == SelectSeq(o, LAMBDA e : e.kind = "notice")

SixProbes ==
    <<"package_count", "shell_ver", "find_term", "memory_current", "disk_usage", "uptime">>

\* C1: a run in which OS detection or a probe raised has printed no composed row; a
\* run that ended has printed all the rows of the info list or none.
C1_NoPartialPanel ==
    /\ err # None => Rows(out) = << >>
    /\ pc = "aborted" => err # None /\ Rows(out) = << >>
    /\ pc = "done" => err = None /\ Len(Rows(out)) = Len(stats) /\ Len(stats) = 11

\* A probe of the second list raised, after the whole first list had been built.
C1_Witness ==
    /\ pc = "aborted"
    /\ building = 2
    /\ err = "CalledProcessError"
    /\ Len(calls) > 6

\* C2: a run that ended well printed max(art lines, info lines) rows, row k carrying
\* art line k, or the empty line past the end of the art; every art line was printed.
C2_RowCount ==
    pc = "done" =>
        LET R == Rows(out) IN
        /\ \E n \in 1..Len(art) : art_lines = splitlines(art[n])
        /\ Len(R) = Max(Len(art_lines), Len(stats))
        /\ \A k \in 1..Len(R) : R[k].line = IF k <= Len(art_lines) THEN art_lines[k] ELSE ""
        /\ \A k \in 1..Len(art_lines) : k <= Len(R) /\ R[k].line = art_lines[k]

\* A run with the longest block (Phoenix, the default) has ended.
C2_Witness ==
    /\ pc = "done"
    /\ args.art = None
    /\ Len(art_lines) = 10
    /\ Len(Rows(out)) = 11
    /\ Rows(out)[11].line = ""

\* C3 (as claimed): on macOS or Linux with a $SHELL that holds neither "zsh" nor
\* "bash", the call of shell_ver ends the run: the run is aborted right after it and
\* never ends well.
C3_UnknownShellAborts ==
    ( /\ host.system \in {"Darwin", "Linux"}
      /\ ~Contains(env_SHELL, <<"z", "s", "h">>)
      /\ ~Contains(env_SHELL, <<"b", "a", "s", "h">>) )
    => /\ (calls # << >> /\ calls[Len(calls)] = "shell_ver") => pc = "aborted"
       /\ pc # "done"

\* C5: with Random-Art every call of ascii_art() returned the same block, one of the
\* catalog, and the lines main prints are those of the block longest_line measured.
C5_RandomArtStable ==
    args.art = "Random-Art" =>
        /\ \A k \in 1..Len(art_calls) :
              /\ art_calls[k] = art_calls[1]
              /\ \E n \in 1..Len(art) : art_calls[k] = art[n]
        /\ Len(art_calls) = 2 => art_lines = splitlines(art_calls[2])
        /\ pc = "done" =>
              \A k \in 1..Len(art_lines) : Rows(out)[k].line = splitlines(art_calls[2])[k]

\* A Random-Art run that ended: both calls of ascii_art() were made.
C5_Witness ==
    /\ args.art = "Random-Art"
    /\ Len(art_calls) = 2
    /\ pc = "done"

\* The longest line of a block, by definition.
MaxLineLength(lines) ==
    CHOOSE m \in {Len(lines[k]) : k \in 1..Len(lines)} :
        \A k \in 1..Len(lines) : Len(lines[k]) <= m

\* C7: the width main computed is at least 15 and is the longest line of the selected
\* block plus 3 when that exceeds 15; longest_line gives the longest line of the block.
C7_Width ==
    Len(art_calls) = 2 =>
        LET longest == MaxLineLength(art_lines) IN
        /\ width >= 15
        /\ longest + 3 > 15 => width = longest + 3
        /\ longest_line(art_calls[2]) = longest

\* The width of a block whose longest line is not its first (Cat: first line empty).
C7_Width_Witness ==
    /\ Len(art_calls) = 2
    /\ args.art = "Cat"
    /\ Len(art_lines[1]) = 0
    /\ width = 29

\* C9 (as claimed): a run that ended well invoked each probe exactly once, in the
\* order packages, shell, terminal, memory, disk, uptime.
C9_EachProbeOnce ==
    pc = "done" => calls = SixProbes

\* C10 (as claimed): on Windows the notice is printed exactly once before any probe,
\* and the run is not aborted.
C10_WindowsNotAborted ==
    host.system = "Windows" =>
        /\ pc # "main" => Len(Notices(out)) = 1 /\ out[1].kind = "notice"
        /\ pc # "aborted"

\* C10 (amended): on Windows the notice is printed exactly once before any probe and
\* main goes on through art selection and the width into sysinfo(), where the first
\* probe, package_count, raises: the run ends with that error, no row printed.
C10_WindowsAbortsInSysinfo ==
    host.system = "Windows" =>
        /\ pc # "main" => Len(Notices(out)) = 1 /\ out[1].kind = "notice"
        /\ calls = << >> \/ calls = <<"package_count">>
        /\ calls = << >> => pc # "aborted" /\ Len(out) <= 1
        /\ calls # << >> =>
              /\ pc = "aborted"
              /\ err = "UnboundLocalError"
              /\ Len(art_calls) = 2
              /\ art_lines # << >>
        /\ pc \notin {"loop", "done"}
        /\ Rows(out) = << >>

\* A Windows run has reached sysinfo() and ended there.
C10_Witness ==
    /\ host.system = "Windows"
    /\ pc = "aborted"
    /\ calls = <<"package_count">>
    /\ Len(out) = 1

\* C4 (as claimed): off macOS and Linux disk_usage returns "N/A" and raises nothing;
\* on macOS and Linux it returns the "used / total" line (when df ran).
C4_DiskUsageNeverRaises ==
    probe = "disk_usage" =>
        IF host.system \in {"Darwin", "Linux"}
        THEN probe_in.exc = None =>
                 probe_out = Return(probe_in.val[2][3] \o " / " \o probe_in.val[2][2])
        ELSE probe_out = Return("N/A")

\* C4 (amended): on Windows disk_usage returns "N/A"; on a system os_check does not
\* know, the error of os_check leaves disk_usage; on macOS and Linux it returns the
\* "used / total" line of the root mount when df ran, and df's error otherwise.
C4_DiskUsageByPlatform ==
    probe = "disk_usage" =>
        IF host.system \in {"Darwin", "Linux"}
        THEN IF probe_in.exc = None
             THEN probe_out = Return(probe_in.val[2][3] \o " / " \o probe_in.val[2][2])
             ELSE probe_out = probe_in
        ELSE IF host.system = "Windows"
        THEN probe_out = Return("N/A")
        ELSE probe_out = Raise("Exception")

\* disk_usage was called on Windows and returned the sentinel.
C4_Witness ==
    /\ probe = "disk_usage"
    /\ host.system = "Windows"
    /\ probe_out.val = "N/A"

\* C6: on an uptime text of the form, the parser gives the days, hours and minutes
\* the text was written from, 0 for each part it lacks.
C6_UptimeParse ==
    (probe = "uptime" /\ probe_in.clock # << >>) =>
        LET match == re_search(uptime_text(probe_in))
            f == uptime_fields(match)
        IN /\ match.matched
           /\ f.days = (IF probe_in.days >= 0 THEN probe_in.days ELSE 0)
           /\ f.hours = (IF probe_in.rest = "hm" THEN probe_in.hours ELSE 0)
           /\ f.minutes = (IF probe_in.rest = "none" THEN 0 ELSE probe_in.minutes)
           /\ host.system \in {"Darwin", "Linux"} => probe_out.exc = None

\* "10:15 up 5 mins" was parsed.
C6_Witness ==
    /\ probe = "uptime"
    /\ host.system = "Linux"
    /\ uptime_text(probe_in) =
           <<"1", "0", ":", "1", "5", " ", "u", "p", " ", "5", " ", "m", "i", "n", "s">>
    /\ uptime_fields(re_search(uptime_text(probe_in))) = [days |-> 0, hours |-> 0, minutes |-> 5]

\* "<n> <unit>" for n = 1, "<n> <unit>s" for any other n.
Rendering(n, unit) ==
    IF n = 1 THEN "1 " \o unit ELSE format_int(n) \o " " \o unit \o "s"

\* C8: the formatted uptime is the renderings of days, hours and minutes, in that
\* order, joined by ", ", each with an "s" unless its count is exactly 1.
C8_Pluralization ==
    (probe = "uptime" /\ probe_out.exc = None) =>
        LET f == uptime_fields(re_search(uptime_text(probe_in))) IN
        probe_out.val = Rendering(f.days, "Day") \o ", " \o Rendering(f.hours, "Hour")
                            \o ", " \o Rendering(f.minutes, "Minute")

\* "10:15 up 1 day, 0:01" was formatted: singular, plural of 0, singular.
C8_Witness ==
    /\ probe = "uptime"
    /\ probe_out.val = "1 Day, 0 Hours, 1 Minute"

====
